---------------------------- MODULE Spec2Model ----------------------------
(***************************************************************************)
(* Model of the therapy-agent pipeline (src/app/therapy_agent.py) and of   *)
(* its HTTP endpoint (src/app/main.py).                                    *)
(*                                                                         *)
(* A run is one execution of the step graph over one request state.  Runs  *)
(* share the module-level dict `memory`; each run executes its nodes in    *)
(* sequence on a worker thread.  Spec handles the requests one at a time;   *)
(* ConcSpec lets the threads interleave between any two accesses of the    *)
(* shared dict while they execute set_user_memory, the only node that      *)
(* touches it.                                                             *)
(*                                                                         *)
(* Python values: a str is a sequence of one-character strings, None is    *)
(* the one-element sequence None, a dict is a function whose DOMAIN is the *)
(* set of keys present.  A dict object that is shared by reference lives   *)
(* in `heap`; `memory` maps a user id to a reference.                      *)
(***************************************************************************)
EXTENDS Integers, Sequences, FiniteSets, TLC

\* ------------------------------------------------------------------ bounds
\* Number of worker threads: the runs that can be in flight at a time.
MaxThreads == 2

Runs == 1..MaxThreads

\* ------------------------------------------------------------ Python values
None == <<"None">>
EmptyDict == [k \in {} |-> None]

DictSet(d, k, v) == [x \in (DOMAIN d) \cup {k} |-> IF x = k THEN v ELSE d[x]]

DictGet(d, k, default) == IF k \in DOMAIN d THEN d[k] ELSE default

Whitespace == {" ", "\n", "\t"}

RECURSIVE LStrip(_)
LStrip(s) == IF s # <<>> /\ Head(s) \in Whitespace THEN LStrip(Tail(s)) ELSE s

RECURSIVE RStrip(_)
RStrip(s) ==
    IF s # <<>> /\ s[Len(s)] \in Whitespace
    THEN RStrip(SubSeq(s, 1, Len(s) - 1))
    ELSE s

\* str.strip()
Strip(s) == RStrip(LStrip(s))

UpperCase == <<"A","B","C","D","E","F","G","H","I","J","K","L","M",
               "N","O","P","Q","R","S","T","U","V","W","X","Y","Z">>
LowerCase == <<"a","b","c","d","e","f","g","h","i","j","k","l","m",
               "n","o","p","q","r","s","t","u","v","w","x","y","z">>

LowerChar(c) ==
    IF \E i \in DOMAIN UpperCase : UpperCase[i] = c
    THEN LowerCase[CHOOSE i \in DOMAIN UpperCase : UpperCase[i] = c]
    ELSE c

\* str.lower()
Lower(s) == [i \in DOMAIN s |-> LowerChar(s[i])]

\* ------------------------------------------------------------ string values
sad == <<"s","a","d">>
angry == <<"a","n","g","r","y">>
anxious == <<"a","n","x","i","o","u","s">>
tired == <<"t","i","r","e","d">>
lonely == <<"l","o","n","e","l","y">>
guilty == <<"g","u","i","l","t","y">>
empty == <<"e","m","p","t","y">>
hopeless == <<"h","o","p","e","l","e","s","s">>
happy == <<"h","a","p","p","y">>
none == <<"n","o","n","e">>
neutral == <<"n","e","u","t","r","a","l">>
Friend == <<"F","r","i","e","n","d">>
Ali == <<"A","l","i">>
Bob == <<"B","o","b">>

\* The labels the routing lambda sends to get_dua.
DistressLabels == {sad, angry, anxious, tired, lonely, guilty, empty, hopeless}

\* The nine labels of the classifier prompt, and the sentinel none.
CategorySet == DistressLabels \cup {happy}

\* ------------------------------------------------------------------ inputs
Uids == {"u1", "u2"}

\* The name field of a /chat request: a name, or None when it is omitted.
ChatNames == {Ali, Bob, None}

\* Initial states of a direct invocation of the graph: user_id, and any of
\* the optional keys name and emotion.
InvokeStates ==
    { [user_id |-> u] : u \in Uids }
    \cup { [user_id |-> u, emotion |-> sad] : u \in Uids }
    \cup { [user_id |-> u, name |-> Ali, emotion |-> sad] : u \in Uids }

\* What model.generate_content(prompt).text can be for the classifier prompt.
ClassifierTexts ==
    { <<" ","L","o","n","e","l","y","\n">>,
      angry,
      <<"H","A","P","P","Y">>,
      none,
      <<>>,
      <<"s","o"," ","s","a","d">>,
      <<"j","o","y","f","u","l">> }

\* The message of every request.
Message == <<"h","i">>

\* The states fetch_dua is called with: an emotion of the Category Set, a
\* label outside it, or no emotion.
FetchLabels == CategorySet \cup {none, neutral, <<"j","o","y","f","u","l">>, <<>>}

FetchStates == {[message |-> Message]} \cup {[message |-> Message, emotion |-> e] : e \in FetchLabels}

\* What model.generate_content(prompt).text can be for the counselling prompt.
ReplyTexts == { <<" ","O","k","\n">>, <<" ","\n">> }


\* ------------------------------------------------------------- dua tables
\* One entry of a dua table: the two texts stand for the literal strings of
\* the source (table, position), both non-empty.
DuaEntry(table, i) ==
    [arabic |-> <<"arabic", table, ToString(i)>>,
     translation |-> <<"translation", table, ToString(i)>>]

EntriesPerTable == 5

DuaTable(table) == [i \in 1..EntriesPerTable |-> DuaEntry(table, i)]

FALLBACK_DUAS == DuaTable("fallback")

DUA_DATASET ==
    [e \in {sad, anxious, hopeless, guilty, lonely} |->
        CASE e = sad -> DuaTable("sad")
          [] e = anxious -> DuaTable("anxious")
          [] e = hopeless -> DuaTable("hopeless")
          [] e = guilty -> DuaTable("guilty")
          [] e = lonely -> DuaTable("lonely")]

\* The formatting loses the translation.
DuaTextArabicOnly(d) == <<"Arabic: ">> \o d.arabic \o <<"\nTranslation: ">>

\* f"Arabic: {arabic}\nTranslation: {translation}"
DuaText(d) == <<"Arabic: ">> \o d.arabic \o <<"\nTranslation: ">> \o d.translation

\* -------------------------------------------------------------- the graph
EntryPoint == "handle_memory"

FinishPoint == "generate_reply"

\* Edge with get_dua wired back to detect_emotion.
EdgeBackToDetect(n) ==
    CASE n = "handle_memory" -> "detect_emotion"
      [] n = "get_dua" -> "detect_emotion"

\* graph.add_edge
Edge(n) ==
    CASE n = "handle_memory" -> "detect_emotion"
      [] n = "get_dua" -> "generate_reply"

\* Router with the test inverted: every label but happy and none is routed
\* to get_dua.
RouterByExclusion(state) ==
    IF DictGet(state, "emotion", None) \notin {happy, none}
    THEN "get_dua"
    ELSE "generate_reply"

\* The lambda of graph.add_conditional_edges("detect_emotion", ...).
Router(state) ==
    IF DictGet(state, "emotion", None) \in DistressLabels
    THEN "get_dua"
    ELSE "generate_reply"

\* The node that runs after node n has returned `state`, or END.
NextNode(n, state) ==
    IF n = FinishPoint THEN "END"
    ELSE IF n = "detect_emotion" THEN Router(state)
    ELSE Edge(n)

\* add_node("generate_reply", set_user_memory): the last node runs the
\* function of the first.
EntryLabelReplyRunsMemory(n) ==
    CASE n = "handle_memory" -> "L320"
      [] n = "detect_emotion" -> "L108"
      [] n = "get_dua" -> "L230"
      [] n = "generate_reply" -> "L320"
      [] n = "END" -> "END"

\* The first program point of a node.  Lines 313-318 of set_user_memory only
\* log what memory holds, so the node starts at line 320.
EntryLabel(n) ==
    CASE n = "handle_memory" -> "L320"
      [] n = "detect_emotion" -> "L108"
      [] n = "get_dua" -> "L230"
      [] n = "generate_reply" -> "L304"
      [] n = "END" -> "END"

\* ------------------------------------------------------------------ state
VARIABLES
    memory,   \* the module-level dict: user id -> reference to a record
    heap,     \* the dict objects: reference -> record (keys name, mood)
    pc,       \* per thread: the program point its run is at
    st,       \* per thread: the request state (a dict)
    tmp,      \* per thread: the reference it holds between two accesses
    steps,    \* per thread: the nodes its run has entered, in order
    req,      \* per thread: how its run was started and with which state
    hmOut,    \* per thread: what set_user_memory returned to its run
    err,      \* per thread: the exception that ended its run, if any
    http,     \* per thread: the response of the /chat endpoint
    last      \* per user id: the last run that ended for it and the record
              \* memory held when it ended (NoLast after a run that raised)

vars == <<memory, heap, pc, st, tmp, steps, req, hmOut, err, http, last>>

\* Dict objects: at most one per user id in memory and one held per thread.
Refs == 1..(Cardinality(Uids) + MaxThreads)

NoRef == 0

\* known: memory held a record for the user id when the request started.
NoReq == [via |-> "none", state |-> EmptyDict, known |-> FALSE]

NoHttp == [status |-> 0, name |-> None, emotion |-> None, message |-> None]

NoOut == [result |-> "none", name |-> None, emotion |-> None]

NoLast == [req |-> NoReq, hm |-> NoOut, record |-> EmptyDict]

Uid(r) == st[r]["user_id"]

\* The record memory holds for user u, or EmptyDict when it holds none.
RecordOf(mem, hp, u) == IF u \in DOMAIN mem THEN hp[mem[u]] ELSE EmptyDict

\* The dict objects something refers to.
Live(mem, t) == {mem[u] : u \in DOMAIN mem} \cup {t[r] : r \in Runs}

\* Reference counting: a dict object nothing refers to is gone.
Collect(hp, mem, t) == [x \in Refs |-> IF x \in Live(mem, t) THEN hp[x] ELSE EmptyDict]

\* The object a dict literal {} creates.
NewRef(mem, t) ==
    CHOOSE x \in Refs : x \notin Live(mem, t) /\ \A y \in Refs : y \notin Live(mem, t) => x <= y

Finished(q) ==
    \/ pc[q] \in {"returned", "failed"}
    \/ pc[q] = "END" /\ req[q].via \in {"invoke", "call"}

Init ==
    /\ memory = EmptyDict
    /\ heap = [x \in Refs |-> EmptyDict]
    /\ pc = [r \in Runs |-> "idle"]
    /\ st = [r \in Runs |-> EmptyDict]
    /\ tmp = [r \in Runs |-> NoRef]
    /\ steps = [r \in Runs |-> <<>>]
    /\ req = [r \in Runs |-> NoReq]
    /\ hmOut = [r \in Runs |-> NoOut]
    /\ err = [r \in Runs |-> "none"]
    /\ http = [r \in Runs |-> NoHttp]
    /\ last = [u \in Uids |-> NoLast]

\* --------------------------------------------------------- graph execution
\* The run of thread r enters node n (or reaches END) with request state s.
Enter(r, n, s) ==
    /\ pc' = [pc EXCEPT ![r] = EntryLabel(n)]
    /\ st' = [st EXCEPT ![r] = s]
    /\ steps' = [steps EXCEPT ![r] = IF n = "END" THEN @ ELSE Append(@, n)]

\* Node n returns s: the graph moves to the next node.  A function called
\* directly returns s to its caller.
Return(r, n, s) == Enter(r, IF req[r].via = "call" THEN "END" ELSE NextNode(n, s), s)

\* An exception leaves the node: invoke raises it, the graph runs no further
\* node, and a /chat caller gets a server error.
Raise(r, e) ==
    /\ pc' = [pc EXCEPT ![r] = "failed"]
    /\ err' = [err EXCEPT ![r] = e]
    /\ http' = [http EXCEPT ![r] =
                  IF req[r].via = "chat" THEN [NoHttp EXCEPT !.status = 500] ELSE @]

\* A request is taken by the first free thread.
CanStart(r) ==
    /\ pc[r] = "idle"
    /\ \A q \in Runs : q < r => pc[q] # "idle"

\* chat() puts an emotion in the state it hands to invoke.
ChatStateWithEmotion(uid, name) ==
    [user_id |-> uid, name |-> name, message |-> Message, emotion |-> sad]

\* main.py chat(): the state handed to invoke always carries the name key.
ChatState(uid, name) == [user_id |-> uid, name |-> name, message |-> Message]

Start(r, via, s) ==
    /\ CanStart(r)
    /\ req' = [req EXCEPT ![r] = [via |-> via, state |-> s,
                                 known |-> s["user_id"] \in DOMAIN memory]]
    /\ Enter(r, EntryPoint, s)
    /\ UNCHANGED <<memory, heap, tmp, hmOut, err, http, last>>

\* POST /chat (main.py lines 15-22).
Chat(r) ==
    \E uid \in Uids, name \in ChatNames : Start(r, "chat", ChatState(uid, name))

\* langgraph_app.invoke(state) called directly.
Invoke(r) ==
    \E s \in InvokeStates : Start(r, "invoke", s @@ [message |-> Message])

\* The caller has the outcome of the run; the thread is free again.
Release(r) ==
    /\ Finished(r)
    /\ last' = IF req[r].via = "call" THEN last
                ELSE [last EXCEPT ![Uid(r)] =
                        IF pc[r] = "failed" THEN NoLast
                        ELSE [req |-> [req[r] EXCEPT !.known = FALSE],
                              hm |-> hmOut[r],
                              record |-> RecordOf(memory, heap, Uid(r))]]
    /\ pc' = [pc EXCEPT ![r] = "idle"]
    /\ st' = [st EXCEPT ![r] = EmptyDict]
    /\ steps' = [steps EXCEPT ![r] = <<>>]
    /\ req' = [req EXCEPT ![r] = NoReq]
    /\ hmOut' = [hmOut EXCEPT ![r] = NoOut]
    /\ err' = [err EXCEPT ![r] = "none"]
    /\ http' = [http EXCEPT ![r] = NoHttp]
    /\ tmp' = [tmp EXCEPT ![r] = NoRef]
    /\ heap' = Collect(heap, memory, tmp')
    /\ UNCHANGED memory

\* ------------------------------------------------- handle_memory (310-330)
Goto(r, label) == pc' = [pc EXCEPT ![r] = label]

\* memory.get with one default dict shared by all users: a user id that
\* memory does not hold gets the dict object of a user it holds.
MemoryGetSharedDefault(mem, t, uid) ==
    IF uid \in DOMAIN mem THEN mem[uid]
    ELSE IF DOMAIN mem # {} THEN mem[CHOOSE u \in DOMAIN mem : TRUE]
    ELSE NewRef(mem, t)

\* memory.get(uid, {})
MemoryGet(mem, t, uid) == IF uid \in DOMAIN mem THEN mem[uid] ELSE NewRef(mem, t)

\* memory[uid] = <the dict read before>
MemoryPut(mem, uid, ref) == DictSet(mem, uid, ref)

\* A store that keeps the history of a key: the value is appended to the one
\* the dict already holds.
RecordStoreAppend(hp, ref, key, value) ==
    [hp EXCEPT ![ref] = DictSet(@, key, IF key \in DOMAIN @ THEN @[key] \o value ELSE value)]

\* <dict>[key] = value on the dict object ref
RecordStore(hp, ref, key, value) == [hp EXCEPT ![ref] = DictSet(@, key, value)]

\* Line 320, and the right-hand side of line 321.
L320(r) ==
    /\ pc[r] = "L320"
    /\ IF "name" \in DOMAIN st[r]
       THEN /\ tmp' = [tmp EXCEPT ![r] = MemoryGet(memory, tmp, Uid(r))]
            /\ Goto(r, "L321_put")
       ELSE /\ Goto(r, "L324")
            /\ UNCHANGED tmp
    /\ UNCHANGED <<memory, heap, st, steps, req, hmOut, err, http, last>>

\* Line 321: the store into memory.
L321_put(r) ==
    /\ pc[r] = "L321_put"
    /\ memory' = MemoryPut(memory, Uid(r), tmp[r])
    /\ tmp' = [tmp EXCEPT ![r] = NoRef]
    /\ heap' = Collect(heap, memory', tmp')
    /\ Goto(r, "L322_load")
    /\ UNCHANGED <<st, steps, req, hmOut, err, http, last>>

\* Line 322: memory[uid] is read ...
L322_load(r) ==
    /\ pc[r] = "L322_load"
    /\ tmp' = [tmp EXCEPT ![r] = memory[Uid(r)]]
    /\ Goto(r, "L322_store")
    /\ UNCHANGED <<memory, heap, st, steps, req, hmOut, err, http, last>>

\* ... and the name is stored in the dict that was read.
L322_store(r) ==
    /\ pc[r] = "L322_store"
    /\ tmp' = [tmp EXCEPT ![r] = NoRef]
    /\ heap' = Collect(RecordStore(heap, tmp[r], "name", st[r]["name"]), memory, tmp')
    /\ Goto(r, "L324")
    /\ UNCHANGED <<memory, st, steps, req, hmOut, err, http, last>>

\* Line 324, and the right-hand side of line 325.
L324(r) ==
    /\ pc[r] = "L324"
    /\ IF "emotion" \in DOMAIN st[r]
       THEN /\ tmp' = [tmp EXCEPT ![r] = MemoryGet(memory, tmp, Uid(r))]
            /\ Goto(r, "L325_put")
       ELSE /\ Goto(r, "L328_load")
            /\ UNCHANGED tmp
    /\ UNCHANGED <<memory, heap, st, steps, req, hmOut, err, http, last>>

\* Line 325: the store into memory.
L325_put(r) ==
    /\ pc[r] = "L325_put"
    /\ memory' = MemoryPut(memory, Uid(r), tmp[r])
    /\ tmp' = [tmp EXCEPT ![r] = NoRef]
    /\ heap' = Collect(heap, memory', tmp')
    /\ Goto(r, "L326_load")
    /\ UNCHANGED <<st, steps, req, hmOut, err, http, last>>

\* Line 326: memory[uid] is read ...
L326_load(r) ==
    /\ pc[r] = "L326_load"
    /\ tmp' = [tmp EXCEPT ![r] = memory[Uid(r)]]
    /\ Goto(r, "L326_store")
    /\ UNCHANGED <<memory, heap, st, steps, req, hmOut, err, http, last>>

\* ... and the emotion is stored as the mood in the dict that was read.
L326_store(r) ==
    /\ pc[r] = "L326_store"
    /\ tmp' = [tmp EXCEPT ![r] = NoRef]
    /\ heap' = Collect(RecordStore(heap, tmp[r], "mood", st[r]["emotion"]), memory, tmp')
    /\ Goto(r, "L328_load")
    /\ UNCHANGED <<memory, st, steps, req, hmOut, err, http, last>>

\* Line 328: memory[uid] is read; a user id that memory does not hold is a
\* KeyError ...
L328_load(r) ==
    /\ pc[r] = "L328_load"
    /\ IF Uid(r) \in DOMAIN memory
       THEN /\ tmp' = [tmp EXCEPT ![r] = memory[Uid(r)]]
            /\ Goto(r, "L328_get")
            /\ UNCHANGED <<hmOut, err, http>>
       ELSE /\ Raise(r, "KeyError")
            /\ hmOut' = [hmOut EXCEPT ![r] = [NoOut EXCEPT !.result = "KeyError"]]
            /\ UNCHANGED tmp
    /\ UNCHANGED <<memory, heap, st, steps, req, last>>

\* The name state["name"] gets from the record: "Friend" when it has none.
ResolvedName(record) == DictGet(record, "name", Friend)

\* The emotion state["emotion"] gets from the record.
ResolvedEmotion(record) == DictGet(record, "mood", neutral)

\* ... and the name is read from the dict.
L328_get(r) ==
    /\ pc[r] = "L328_get"
    /\ st' = [st EXCEPT ![r] = DictSet(@, "name", ResolvedName(heap[tmp[r]]))]
    /\ tmp' = [tmp EXCEPT ![r] = NoRef]
    /\ heap' = Collect(heap, memory, tmp')
    /\ Goto(r, "L329_load")
    /\ UNCHANGED <<memory, steps, req, hmOut, err, http, last>>

\* Line 329: the same for the mood.
L329_load(r) ==
    /\ pc[r] = "L329_load"
    /\ tmp' = [tmp EXCEPT ![r] = memory[Uid(r)]]
    /\ Goto(r, "L329_get")
    /\ UNCHANGED <<memory, heap, st, steps, req, hmOut, err, http, last>>

\* Lines 329-330: the node returns the state.
L329_get(r) ==
    /\ pc[r] = "L329_get"
    /\ LET s == DictSet(st[r], "emotion", ResolvedEmotion(heap[tmp[r]]))
       IN /\ Return(r, "handle_memory", s)
          /\ hmOut' = [hmOut EXCEPT ![r] =
                         [result |-> "returned",
                          name |-> s["name"],
                          emotion |-> s["emotion"]]]
    /\ tmp' = [tmp EXCEPT ![r] = NoRef]
    /\ heap' = Collect(heap, memory, tmp')
    /\ UNCHANGED <<memory, req, err, http, last>>

SetUserMemoryStep(r) ==
    \/ L320(r) \/ L321_put(r) \/ L322_load(r) \/ L322_store(r)
    \/ L324(r) \/ L325_put(r) \/ L326_load(r) \/ L326_store(r)
    \/ L328_load(r) \/ L328_get(r) \/ L329_load(r) \/ L329_get(r)

\* ------------------------------------------------ detect_emotion (98-111)
\* The label classify_emotion stores for the text the client returned.
ClassifiedEmotion(text) == Lower(Strip(text))

\* The client returns a text.
L108(r) ==
    /\ pc[r] = "L108"
    /\ \E text \in ClassifierTexts :
         Return(r, "detect_emotion", DictSet(st[r], "emotion", ClassifiedEmotion(text)))
    /\ UNCHANGED <<memory, heap, tmp, req, hmOut, err, http, last>>

\* The client call raises: nothing in classify_emotion catches it.
L108_raise(r) ==
    /\ pc[r] = "L108"
    /\ Raise(r, "GenerationError")
    /\ UNCHANGED <<memory, heap, st, tmp, steps, req, hmOut, last>>

\* ------------------------------------------------------ get_dua (229-251)
\* fetch_dua with the list ["happy", "none"]: neutral gets a fallback dua.
FetchedDuasNeutralFallback(emotion) ==
    IF emotion \in {happy, none} THEN {None}
    ELSE IF emotion \in DOMAIN DUA_DATASET
    THEN {DuaText(DUA_DATASET[emotion][i]) : i \in DOMAIN DUA_DATASET[emotion]}
    ELSE {DuaText(FALLBACK_DUAS[i]) : i \in DOMAIN FALLBACK_DUAS}

\* The values fetch_dua can store in state["dua"] for an emotion.
FetchedDuas(emotion) ==
    IF emotion \in {happy, neutral, none} THEN {None}
    ELSE IF emotion \in DOMAIN DUA_DATASET
    THEN {DuaText(DUA_DATASET[emotion][i]) : i \in DOMAIN DUA_DATASET[emotion]}
    ELSE {DuaText(FALLBACK_DUAS[i]) : i \in DOMAIN FALLBACK_DUAS}

\* random.choice raises IndexError on an empty list.
L230(r) ==
    /\ pc[r] = "L230"
    /\ LET duas == FetchedDuas(DictGet(st[r], "emotion", None))
       IN IF duas = {}
          THEN /\ Raise(r, "IndexError")
               /\ UNCHANGED <<st, steps>>
          ELSE /\ \E d \in duas : Return(r, "get_dua", DictSet(st[r], "dua", d))
               /\ UNCHANGED <<err, http>>
    /\ UNCHANGED <<memory, heap, tmp, req, hmOut, last>>

\* fetch_dua(state) called directly.
CallFetchDua(r) ==
    /\ CanStart(r)
    /\ \E s \in FetchStates :
         /\ req' = [req EXCEPT ![r] = [via |-> "call", state |-> s, known |-> FALSE]]
         /\ pc' = [pc EXCEPT ![r] = "L230"]
         /\ st' = [st EXCEPT ![r] = s]
         /\ steps' = [steps EXCEPT ![r] = <<"get_dua">>]
    /\ UNCHANGED <<memory, heap, tmp, hmOut, err, http, last>>

\* ----------------------------------------------- generate_reply (256-307)
\* The reply generate_counseling stores for the text the client returned.
ReplyOf(text) == Strip(text)

\* generate_counseling keeps dua as fetch_dua left it, absent when
\* fetch_dua did not run, and puts a dua in the state itself.
CounselingStateWithDua(s, text) ==
    DictSet(DictSet(s, "dua", DictGet(s, "dua", DuaText(FALLBACK_DUAS[1]))),
            "response", ReplyOf(text))

\* The state generate_counseling returns: only response is set.
CounselingState(s, text) == DictSet(s, "response", ReplyOf(text))

L304(r) ==
    /\ pc[r] = "L304"
    /\ \E text \in ReplyTexts :
         Return(r, "generate_reply", CounselingState(st[r], text))
    /\ UNCHANGED <<memory, heap, tmp, req, hmOut, err, http, last>>

\* The client call raises: nothing in generate_counseling catches it.
L304_raise(r) ==
    /\ pc[r] = "L304"
    /\ Raise(r, "GenerationError")
    /\ UNCHANGED <<memory, heap, st, tmp, steps, req, hmOut, last>>

\* --------------------------------------------------- main.py lines 23-30
\* The JSON response built from the final state.
\* The content dict of the JSONResponse (lines 24-28).
ResponseContent(result) ==
    [name |-> result["name"],
     emotion |-> result["emotion"],
     message |-> result["response"]]

ResponseBody(result) ==
    [status |-> 200,
     name |-> ResponseContent(result)["name"],
     emotion |-> ResponseContent(result)["emotion"],
     message |-> ResponseContent(result)["message"]]

ChatReturn(r) ==
    /\ pc[r] = "END"
    /\ req[r].via = "chat"
    /\ http' = [http EXCEPT ![r] = ResponseBody(st[r])]
    /\ Goto(r, "returned")
    /\ UNCHANGED <<memory, heap, st, tmp, steps, req, hmOut, err, last>>

\* --------------------------------------------------------- specifications
AllIdle == \A q \in Runs : pc[q] = "idle"

\* The requests are handled one at a time.
Next ==
    \E r \in Runs :
        \/ AllIdle /\ Chat(r)
        \/ AllIdle /\ Invoke(r)
        \/ SetUserMemoryStep(r)
        \/ L108(r)
        \/ L108_raise(r)
        \/ L230(r)
        \/ L304(r)
        \/ L304_raise(r)
        \/ ChatReturn(r)
        \/ Release(r)

Spec == Init /\ [][Next]_vars

\* The threads run set_user_memory concurrently, interleaved between any two
\* accesses of memory.  The later nodes do not touch memory and are left to
\* Spec.
ConcNext ==
    \E r \in Runs :
        \/ Chat(r)
        \/ Invoke(r)
        \/ SetUserMemoryStep(r)
        \/ Release(r)

ConcSpec == Init /\ [][ConcNext]_vars

\* fetch_dua applied on its own to every label.
FetchNext ==
    \E r \in Runs :
        \/ CallFetchDua(r)
        \/ L230(r)
        \/ Release(r)

FetchSpec == Init /\ [][FetchNext]_vars

\* ------------------------------------------------------------------ claims
IsPrefix(a, b) == Len(a) <= Len(b) /\ SubSeq(b, 1, Len(a)) = a

LastStep(r) == IF steps[r] = <<>> THEN "none" ELSE steps[r][Len(steps[r])]

EmotionalPath == <<"handle_memory", "detect_emotion", "get_dua", "generate_reply">>

CasualPath == <<"handle_memory", "detect_emotion", "generate_reply">>

Completed(r) == pc[r] \in {"END", "returned"}

\* C1: the node a run enters right after classify_emotion has returned is
\* get_dua when the emotion in its state is one of the eight distress labels
\* and generate_reply for every other emotion, whatever the rest of the
\* request state and the session store hold.
C1_RoutingByEmotion ==
    [][\A r \in Runs :
         (pc[r] = "L108" /\ pc'[r] \notin {"L108", "failed"}) =>
            pc'[r] = (IF st'[r]["emotion"] \in DistressLabels THEN "L230" ELSE "L304")]_vars

\* A run routed to get_dua with the label lonely, for a user with a record
\* left by an earlier request.
C1_Witness ==
    \E r \in Runs :
        /\ pc[r] = "L230"
        /\ st[r]["emotion"] = lonely
        /\ last[Uid(r)] # NoLast

\* C2: the nodes a run has entered are a prefix of handle_memory,
\* detect_emotion, get_dua, generate_reply or of handle_memory,
\* detect_emotion, generate_reply (so no node runs twice and get_dua never
\* precedes detect_emotion), and a completed run has entered exactly one of
\* the two sequences, generate_reply last.
C2_StepOrder ==
    \A r \in Runs :
        /\ IsPrefix(steps[r], EmotionalPath) \/ IsPrefix(steps[r], CasualPath)
        /\ Completed(r) => steps[r] \in {EmotionalPath, CasualPath}

\* A completed run of the emotional branch.
C2_Witness == \E r \in Runs : Completed(r) /\ steps[r] = EmotionalPath

\* C3: once classify_emotion has returned, the emotion of the state is one of
\* the nine category labels or none.
C3_EmotionInCategorySet ==
    \A r \in Runs :
        pc[r] \in {"L230", "L304", "END", "returned"} =>
            st[r]["emotion"] \in CategorySet \cup {none}

\* C4: a run whose last node is detect_emotion has not failed: a failure of
\* the classifier's client call is not an error of the run.
C4_ClassifierFailureIsNotFatal ==
    \A r \in Runs :
        LastStep(r) = "detect_emotion" => pc[r] # "failed" /\ http[r].status # 500

\* C5: a run whose last node is generate_reply has not failed: a failure of
\* the synthesizer's client call is not an error of the run.
C5_SynthesisFailureIsNotFatal ==
    \A r \in Runs :
        LastStep(r) = "generate_reply" => pc[r] # "failed" /\ http[r].status # 500

\* C6: the response of a completed run is not the empty string.
C6_ReplyNonEmpty ==
    \A r \in Runs : Completed(r) => st[r]["response"] # <<>>

\* C7: when a /chat request that omits the name gets its response, and the
\* request before it for the same user was a /chat request that carried a
\* name and got a response, the response carries that name.
C7_NameKeptWhenOmitted ==
    \A r \in Runs :
        ( /\ pc[r] = "returned"
          /\ req[r].state["name"] = None
          /\ last[Uid(r)].req.via = "chat"
          /\ last[Uid(r)].req.state["name"] # None )
        => /\ last[Uid(r)].hm.name = last[Uid(r)].req.state["name"]
           /\ http[r].name = last[Uid(r)].req.state["name"]

\* Lines 320-326 run without interruption on the record of a user: the record
\* after the merge of request state s into record rec.
MergeRecord(rec, s) ==
    LET named == IF "name" \in DOMAIN s THEN DictSet(rec, "name", s["name"]) ELSE rec
    IN IF "emotion" \in DOMAIN s THEN DictSet(named, "mood", s["emotion"]) ELSE named

HmDone(r) == pc[r] \in {"L108", "failed"}

\* C8: when two runs for the same user, the only runs for that user since the
\* store was empty, have both left set_user_memory, the user's record is the
\* one that the two merges give when run one after the other in some order.
C8_NoLostUpdate ==
    \A r1, r2 \in Runs :
        ( /\ r1 # r2
          /\ HmDone(r1) /\ HmDone(r2)
          /\ Uid(r1) = Uid(r2)
          /\ last[Uid(r1)] = NoLast
          /\ \A q \in Runs \ {r1, r2} : pc[q] # "idle" => Uid(q) # Uid(r1) )
        => RecordOf(memory, heap, Uid(r1)) \in
              { MergeRecord(MergeRecord(EmptyDict, req[r1].state), req[r2].state),
                MergeRecord(MergeRecord(EmptyDict, req[r2].state), req[r1].state) }

\* The names and the emotions carried by the requests of the runs in flight
\* for user u.
OwnNames(u) ==
    {Friend} \cup
    { req[q].state["name"] : q \in {x \in Runs : pc[x] # "idle" /\ Uid(x) = u
                                                  /\ "name" \in DOMAIN req[x].state} }

OwnEmotions(u) ==
    {neutral} \cup
    { req[q].state["emotion"] : q \in {x \in Runs : pc[x] # "idle" /\ Uid(x) = u
                                                     /\ "emotion" \in DOMAIN req[x].state} }

\* Whether memory holds u and which record, as a value.
Holding(mem, hp, u) == <<u \in DOMAIN mem, RecordOf(mem, hp, u)>>

\* C9: under every interleaving of concurrent runs of set_user_memory, a step
\* changes the record of user u only if it is a step of a run for u (failing
\* runs included), and the name and emotion a run resolves come from the
\* requests in flight for its own user or are the defaults.
C9_Isolation ==
    [][ /\ \A u \in Uids :
             Holding(memory', heap', u) # Holding(memory, heap, u) =>
                \E r \in Runs : pc[r] # "idle" /\ Uid(r) = u /\ pc'[r] # pc[r]
        /\ \A r \in Runs :
             hmOut'[r].result = "returned" =>
                /\ hmOut'[r].name \in OwnNames(Uid(r))'
                /\ hmOut'[r].emotion \in OwnEmotions(Uid(r))' ]_vars

\* Two runs for different users, with different names and emotions, have
\* both left set_user_memory after running it concurrently.
C9_Witness ==
    \E r1, r2 \in Runs :
        /\ hmOut[r1].result = "returned" /\ hmOut[r2].result = "returned"
        /\ Uid(r1) # Uid(r2)
        /\ hmOut[r1].name = Ali /\ hmOut[r2].name = Bob
        /\ hmOut[r1].emotion = sad /\ hmOut[r2].emotion = neutral

\* C10: when set_user_memory has returned to a run whose request state
\* equals the one of the run before it for the same user, the user's record
\* is the one the run before left, and the name and emotion resolved are the
\* ones resolved for that run.
C10_MergeIdempotent ==
    \A r \in Runs :
        ( /\ hmOut[r].result # "none"
          /\ last[Uid(r)] # NoLast
          /\ last[Uid(r)].req.state = req[r].state )
        => /\ hmOut[r] = last[Uid(r)].hm
           /\ RecordOf(memory, heap, Uid(r)) = last[Uid(r)].record

\* set_user_memory has returned for the second time to a request carrying
\* the emotion sad and no name, for a user whose record held a name before.
C10_Witness ==
    \E r \in Runs :
        /\ hmOut[r].result = "returned"
        /\ last[Uid(r)].req.state = req[r].state
        /\ "emotion" \in DOMAIN req[r].state
        /\ "name" \notin DOMAIN req[r].state
        /\ hmOut[r].name = Bob

\* A dua text is well formed when it reads "Arabic: <a>\nTranslation: <t>"
\* with a and t non-empty.
WellFormedDua(dua) ==
    \E k \in 3..(Len(dua) - 1) :
        /\ dua[1] = "Arabic: "
        /\ dua[k] = "\nTranslation: "
        /\ \A j \in 2..(k - 1) : dua[j] # "\nTranslation: "

\* C11: fetch_dua raises nothing for any label, and the dua it has set is
\* None or a well-formed text with a non-empty Arabic part and a non-empty
\* translation.
C11_FetchDuaNeverFails ==
    \A r \in Runs :
        LastStep(r) = "get_dua"
        => /\ pc[r] # "failed"
           /\ pc[r] # "L230"
              => /\ "dua" \in DOMAIN st[r]
                 /\ st[r]["dua"] = None \/ WellFormedDua(st[r]["dua"])

\* fetch_dua has returned a well-formed text of the fallback table for the
\* label tired while another call has returned None for happy.
C11_Witness ==
    \E r1, r2 \in Runs :
        /\ pc[r1] = "END" /\ pc[r2] = "END"
        /\ req[r1].via = "call" /\ req[r2].via = "call"
        /\ "emotion" \in DOMAIN st[r1] /\ st[r1]["emotion"] = tired
        /\ st[r1]["dua"] = DuaText(FALLBACK_DUAS[3])
        /\ WellFormedDua(st[r1]["dua"])
        /\ "emotion" \in DOMAIN st[r2] /\ st[r2]["emotion"] = happy
        /\ st[r2]["dua"] = None

\* C12: when POST /chat has returned for a request whose classified emotion
\* is a distress label, the final state holds a dua that is not None, and
\* the response carries that emotion, a dua that is not None and a non-empty
\* message.
C12_DistressResponse ==
    \A r \in Runs :
        (pc[r] = "returned" /\ st[r]["emotion"] \in DistressLabels)
        => /\ "dua" \in DOMAIN st[r] /\ st[r]["dua"] # None
           /\ http[r].emotion = st[r]["emotion"]
           /\ DictGet(ResponseContent(st[r]), "dua", None) # None
           /\ http[r].message # <<>>

\* C13: when POST /chat has returned for a user whose record holds no mood
\* and the classifier's label of the request is none, the response emotion
\* is the default neutral, the response carries no dua and its message is
\* non-empty.
C13_NoneGivesNeutral ==
    \A r \in Runs :
        ( /\ pc[r] = "returned"
          /\ hmOut[r].emotion = neutral
          /\ "mood" \notin DOMAIN RecordOf(memory, heap, Uid(r))
          /\ st[r]["emotion"] = none )
        => /\ http[r].emotion = neutral
           /\ DictGet(ResponseContent(st[r]), "dua", None) = None
           /\ http[r].message # <<>>

\* C14: when set_user_memory is over for a request without emotion, with the
\* name key absent or None, of a user memory held no record for, it has
\* returned, memory holds a record for the user, the name resolved is Friend
\* and the emotion resolved is neutral.
C14_UnseenUserDefaults ==
    \A r \in Runs :
        ( /\ hmOut[r].result # "none"
          /\ ~req[r].known
          /\ "emotion" \notin DOMAIN req[r].state
          /\ "name" \in DOMAIN req[r].state => req[r].state["name"] = None )
        => /\ hmOut[r].result = "returned"
           /\ Uid(r) \in DOMAIN memory
           /\ hmOut[r].name = Friend
           /\ hmOut[r].emotion = neutral

\* C15: when set_user_memory has returned to a run whose request state
\* carries a name, the name it has placed in the state is the name that run
\* has written for its user, whatever other runs did in between.
C15_OwnWriteVisible ==
    \A r \in Runs :
        (hmOut[r].result = "returned" /\ "name" \in DOMAIN req[r].state)
        => hmOut[r].name = req[r].state["name"]

\* The emotion fetch_dua has read from the state of run r.
FetchedFor(r) == DictGet(st[r], "emotion", None)

\* C16 as stated: fetch_dua has set a dua that is not None exactly for the
\* eight distress labels, and None for every other label, the labels outside
\* the Category Set included.
C16_ArtifactOnlyForDistress ==
    \A r \in Runs :
        (LastStep(r) = "get_dua" /\ pc[r] \notin {"L230", "failed"})
        => (st[r]["dua"] # None <=> FetchedFor(r) \in DistressLabels)

\* C16: fetch_dua has set dua to None exactly when the emotion is happy,
\* neutral or none; for every other emotion, a label outside the Category
\* Set and a missing emotion included, it has set a well-formed dua text.
C16_NullOnlyForCalm ==
    \A r \in Runs :
        (LastStep(r) = "get_dua" /\ pc[r] \notin {"L230", "failed"})
        => /\ st[r]["dua"] = None <=> FetchedFor(r) \in {happy, neutral, none}
           /\ st[r]["dua"] # None => WellFormedDua(st[r]["dua"])

\* fetch_dua has returned a dua of the fallback table for a label outside
\* the Category Set while another call has returned None for neutral.
C16_Witness ==
    \E r1, r2 \in Runs :
        /\ pc[r1] = "END" /\ pc[r2] = "END"
        /\ LastStep(r1) = "get_dua" /\ LastStep(r2) = "get_dua"
        /\ FetchedFor(r1) \notin CategorySet \cup {none, neutral, None}
        /\ st[r1]["dua"] \in {DuaText(FALLBACK_DUAS[i]) : i \in DOMAIN FALLBACK_DUAS}
        /\ FetchedFor(r2) = neutral
        /\ st[r2]["dua"] = None

\* C17: a run routed from detect_emotion to generate_reply holds no dua, or
\* a dua that is None, in the state generate_counseling gets and in the
\* state the run ends with; a run holds a dua that is not None only when it
\* has entered get_dua.
C17_NoDuaOnCasualBranch ==
    \A r \in Runs :
        /\ steps[r] = CasualPath => DictGet(st[r], "dua", None) = None
        /\ DictGet(st[r], "dua", None) # None
           => \E i \in DOMAIN steps[r] : steps[r][i] = "get_dua"

\* A request classified happy has gone from detect_emotion to generate_reply
\* and has completed with a response and no dua in its final state.
C17_Witness ==
    \E r \in Runs :
        /\ pc[r] = "returned"
        /\ steps[r] = CasualPath
        /\ st[r]["emotion"] = happy
        /\ "dua" \notin DOMAIN st[r]
        /\ "response" \in DOMAIN st[r]

\* C18: a run stops before the finish point only when a client call has
\* raised, so a run whose client calls all return reaches the finish point,
\* and the state of a run at the finish point holds the response.
C18_RunsReachFinish ==
    \A r \in Runs :
        /\ pc[r] = "failed" => err[r] = "GenerationError"
        /\ Completed(r) => "response" \in DOMAIN st[r]

\* What memory holds: the user ids it has and the record of each.
StoreView == <<DOMAIN memory, [u \in Uids |-> RecordOf(memory, heap, u)]>>

\* C19: memory and the records it holds change only in a step of a run that
\* is in its first node, handle_memory; no step of detect_emotion, get_dua
\* or generate_reply, a failing step included, changes them.
C19_StoreWrittenOnlyByFirstStep ==
    [][ StoreView' # StoreView
        => \E r \in Runs : LastStep(r) = "handle_memory" /\ pc'[r] # pc[r] ]_vars

\* A run has failed in generate_reply, and memory holds for its user, who
\* had no record before, the record set_user_memory wrote.
C19_Witness ==
    \E r \in Runs :
        /\ pc[r] = "failed"
        /\ LastStep(r) = "generate_reply"
        /\ ~req[r].known
        /\ "name" \in DOMAIN req[r].state /\ req[r].state["name"] = Ali
        /\ RecordOf(memory, heap, Uid(r)) = [name |-> Ali]

\* The labels classify_emotion can store.
ClassifierLabels == {ClassifiedEmotion(text) : text \in ClassifierTexts}

\* No record in memory holds a mood.
NoMood == \A u \in Uids : "mood" \notin DOMAIN RecordOf(memory, heap, u)

\* C20: memory holds no mood at the start, and a step of a POST /chat run
\* taken when no record holds a mood leaves it so, so that no record holds a
\* mood after any sequence of /chat requests; the emotion set_user_memory
\* resolves in such a run is the default neutral, and the emotion of its
\* response is the label classify_emotion stored in the state of that run.
C20_NoStoredMood ==
    /\ NoMood
    /\ [][ \A r \in Runs :
             ( /\ NoMood
               /\ req[r].via = "chat" \/ req'[r].via = "chat"
               /\ pc'[r] # pc[r] )
             => /\ NoMood'
                /\ hmOut'[r].result = "returned" => hmOut'[r].emotion = neutral
                /\ pc'[r] = "returned"
                   => /\ http'[r].emotion = st'[r]["emotion"]
                      /\ http'[r].emotion \in ClassifierLabels ]_vars

\* A later request of a user whose earlier request was answered has been
\* answered with the emotion lonely, resolved neutral before classification:
\* memory holds the user's name and no mood.
C20_Witness ==
    \E r \in Runs :
        /\ pc[r] = "returned"
        /\ req[r].known
        /\ last[Uid(r)].req.via = "chat"
        /\ hmOut[r].emotion = neutral
        /\ http[r].emotion = lonely
        /\ DOMAIN RecordOf(memory, heap, Uid(r)) = {"name"}
        /\ NoMood

=============================================================================
